---- MODULE Spec2Model ----
(***************************************************************************)
(* K-in-a-Row with Forbidden Squares: the board/state transition, the win  *)
(* detector, the static evaluator, the Zobrist hasher and the minimax      *)
(* search of OurAgent, as state machines over small boards.                *)
(*                                                                         *)
(* Python values are modelled as follows.  A board is a function           *)
(* [0..rows-1 -> [0..cols-1 -> token]], so board[r][c] reads as in the     *)
(* source.  None is the string "None" where the other values are strings   *)
(* and the empty tuple where the other values are moves.  math.inf is the  *)
(* integer Inf, larger than any static evaluation of a modelled board.     *)
(* The dialog bookkeeping of the agent (turn_count, utterance lists,       *)
(* game_state_history, last_move_time) is not modelled: no operation of    *)
(* the model reads it.                                                     *)
(***************************************************************************)
EXTENDS Integers, Sequences, FiniteSets, TLC

VARIABLES
    agent,      \* the OurAgent object: playing, current_game_type, keys, counters, cache
    state,      \* the current State value: [board, whose_move]
    last_move,  \* the move that produced state, NoMove before the first move
    heap,       \* object store of the aliasing model: State objects and board objects
    in_ref,     \* reference of the State object handed to apply_move
    out_ref,    \* reference of the State object apply_move returned, NoRef if none
    res,        \* what the last operation returned or raised
    gm          \* the OfflineGameMaster object, NoGm where none is constructed

vars == <<agent, state, last_move, heap, in_ref, out_ref, res, gm>>

---------------------------------------------------------------------------
(* Bounds of the model *)

GameN == 3          \* rows of the boards games are played on
GameM == 3          \* columns of the boards games are played on
GameK == 3          \* run length of those games
MaxForbidden == 1   \* forbidden squares on an initial board
MaxDepth == 2       \* largest depth_remaining of a direct minimax call
MaxPly == 3         \* largest max_ply of a make_move call
MaxEvals == 1       \* direct minimax calls start below this num_static_evals_this_turn
WinDim == 5         \* larger board dimension of the win-detector scenarios
KMin == 3           \* smallest k of the win-detector scenarios
KMax == 5           \* largest k of the win-detector scenarios
KeyBits == 4        \* width of a modelled Zobrist key
MaxSeed == 1        \* key tables drawn at init_zobrist
ApplyN == 2         \* rows of the small boards (apply_move calls, any-side games)
ApplyM == 3         \* columns of the small boards

Inf == 1000000

---------------------------------------------------------------------------
(* Values *)

PLAYER_X == "X"
PLAYER_O == "O"
EmptyCell == " "
ForbiddenCell == "-"
None == "None"
NoMove == <<>>
NoRef == 0

Max2(a, b) == IF a >= b THEN a ELSE b
Min2(a, b) == IF a <= b THEN a ELSE b

NumRows(board) == Cardinality(DOMAIN board)
NumCols(board) == IF NumRows(board) > 0 THEN Cardinality(DOMAIN board[0]) ELSE 0

\* Python's list indexing: a negative index counts from the end; -1 stands
\* for an index outside the list (IndexError).
PyIndex(i, len) ==
    IF 0 <= i /\ i < len THEN i
    ELSE IF -len <= i /\ i < 0 THEN i + len
    ELSE -1

\* range(rows) x range(cols) in row-major order, as the nested for loops visit it
AllCells(rows, cols) ==
    [i \in 1..(rows * cols) |-> <<(i - 1) \div cols, (i - 1) % cols>>]

InitialBoard(n, m, forbidden) ==
    [r \in 0..(n - 1) |-> [c \in 0..(m - 1) |->
        IF <<r, c>> \in forbidden THEN ForbiddenCell ELSE EmptyCell]]

---------------------------------------------------------------------------
(* OurAgent.apply_move over an object store.  copy.deepcopy allocates a new *)
(* State object and a new board object; the writes go to the copies.        *)

FreshRef(store) == Cardinality(DOMAIN store) + 1

\* deepcopy replaced by copy.copy: a new State object that shares the board
deepcopy_shallow(hp, sref) ==
    LET ns == FreshRef(hp.states)
    IN  [heap |-> [states |-> [x \in DOMAIN hp.states \cup {ns} |->
                                  IF x = ns THEN hp.states[sref] ELSE hp.states[x]],
                   boards |-> hp.boards],
         ref |-> ns]

deepcopy(hp, sref) ==
    LET ns == FreshRef(hp.states)
        nb == FreshRef(hp.boards)
        old == hp.states[sref]
    IN  [heap |-> [states |-> [x \in DOMAIN hp.states \cup {ns} |->
                                  IF x = ns THEN [board |-> nb, whose_move |-> old.whose_move]
                                  ELSE hp.states[x]],
                   boards |-> [x \in DOMAIN hp.boards \cup {nb} |->
                                  IF x = nb THEN hp.boards[old.board] ELSE hp.boards[x]]],
         ref |-> ns]

\* new_state.board[r][c] = token
WriteCell(hp, sref, r, c, token) ==
    LET b == hp.states[sref].board
    IN  [hp EXCEPT !.boards[b][r][c] = token]

\* WriteWhoseMove that leaves whose_move as it is
WriteWhoseMove_keep(hp, sref, token) == hp

\* new_state.whose_move = token
WriteWhoseMove(hp, sref, token) ==
    [hp EXCEPT !.states[sref].whose_move = token]

apply_move(hp, sref, move) ==
    LET cp == deepcopy(hp, sref)
        nb == cp.heap.boards[cp.heap.states[cp.ref].board]
        r == PyIndex(move[1], NumRows(nb))
        c == IF r = -1 THEN -1 ELSE PyIndex(move[2], Cardinality(DOMAIN nb[r]))
        mover == hp.states[sref].whose_move
    IN  IF r = -1 \/ c = -1
        THEN [raised |-> "IndexError", heap |-> hp, ref |-> NoRef]
        ELSE IF nb[r][c] # EmptyCell
        THEN [raised |-> "ValueError: Invalid Move", heap |-> hp, ref |-> NoRef]
        ELSE [raised |-> None,
              heap |-> WriteWhoseMove(WriteCell(cp.heap, cp.ref, r, c, mover), cp.ref,
                                      IF mover = PLAYER_X THEN PLAYER_O ELSE PLAYER_X),
              ref |-> cp.ref]

\* The State value an object reference stands for
Deref(hp, sref) ==
    [board |-> hp.boards[hp.states[sref].board], whose_move |-> hp.states[sref].whose_move]

\* A store holding one State object, reference 1, with the given value
StoreOf(st) ==
    [states |-> [x \in {1} |-> [board |-> 1, whose_move |-> st.whose_move]],
     boards |-> [x \in {1} |-> st.board]]

\* child_state = self.apply_move(state, move) for a legal move, as a value
ChildState(st, move) ==
    LET a == apply_move(StoreOf(st), 1, move)
    IN  Deref(a.heap, a.ref)

\* OurAgent.get_available_moves: the Empty cells in row-major order
get_available_moves(st) ==
    SelectSeq(AllCells(NumRows(st.board), NumCols(st.board)),
              LAMBDA mv : st.board[mv[1]][mv[2]] = EmptyCell)

---------------------------------------------------------------------------
(* Static evaluator *)

\* The origins of get_all_possible_sequences, one per appended sequence:
\* <<delta_row, delta_col, r, c>>
SequenceOrigins(rows, cols, k) ==
    {<<0, 1, r, c>> : r \in 0..(rows - 1), c \in 0..(cols - k)}
    \cup {<<1, 0, r, c>> : r \in 0..(rows - k), c \in 0..(cols - 1)}
    \cup {<<1, 1, r, c>> : r \in 0..(rows - k), c \in 0..(cols - k)}
    \cup {<<1, -1, r, c>> : r \in 0..(rows - k), c \in (k - 1)..(cols - 1)}

\* seq.count(token) for the sequence of k cells starting at origin w
SeqCount(board, w, k, token) ==
    Cardinality({i \in 0..(k - 1) : board[w[3] + i * w[1]][w[4] + i * w[2]] = token})

\* count_sequences without the 1000 for a complete run
count_sequences_norun(self, st, player) ==
    LET k == self.current_game_type.k
        ws == SequenceOrigins(NumRows(st.board), NumCols(st.board), k)
    IN  50 * Cardinality({w \in ws : /\ SeqCount(st.board, w, k, player) = k - 1
                                     /\ SeqCount(st.board, w, k, EmptyCell) = 1})
        + 10 * Cardinality({w \in ws : /\ SeqCount(st.board, w, k, player) = k - 2
                                       /\ SeqCount(st.board, w, k, EmptyCell) = 2})

count_sequences(self, st, player) ==
    LET k == self.current_game_type.k
        ws == SequenceOrigins(NumRows(st.board), NumCols(st.board), k)
    IN  1000 * Cardinality({w \in ws : SeqCount(st.board, w, k, player) = k})
        + 50 * Cardinality({w \in ws : /\ SeqCount(st.board, w, k, player) = k - 1
                                       /\ SeqCount(st.board, w, k, EmptyCell) = 1})
        + 10 * Cardinality({w \in ws : /\ SeqCount(st.board, w, k, player) = k - 2
                                       /\ SeqCount(st.board, w, k, EmptyCell) = 2})

static_eval(self, st) ==
    count_sequences(self, st, PLAYER_X) - count_sequences(self, st, PLAYER_O)

---------------------------------------------------------------------------
(* Win detector (winTesterForK.py) *)

RECURSIVE _count_in_direction(_, _, _, _, _, _, _, _)
\* called with the first cell after the start cell: the loop of the function
_count_in_direction(board, current_row, current_col, delta_row, delta_col, player, rows, cols) ==
    IF /\ 0 <= current_row /\ current_row < rows
       /\ 0 <= current_col /\ current_col < cols
       /\ board[current_row][current_col] = player
    THEN 1 + _count_in_direction(board, current_row + delta_row, current_col + delta_col,
                                 delta_row, delta_col, player, rows, cols)
    ELSE 0

_is_board_full(board) ==
    ~ \E r \in DOMAIN board : \E c \in DOMAIN board[r] :
          board[r][c] = EmptyCell \/ board[r][c] = ForbiddenCell

\* FullScanHit with the anti-diagonal bound off by one: col - k >= 0
FullScanHit_offbyone(board, k, player, row, col) ==
    LET rows == NumRows(board)
        cols == NumCols(board)
    IN  /\ board[row][col] = player
        /\ \/ col + k <= cols /\ \A i \in 0..(k - 1) : board[row][col + i] = player
           \/ row + k <= rows /\ \A i \in 0..(k - 1) : board[row + i][col] = player
           \/ /\ row + k <= rows /\ col + k <= cols
              /\ \A i \in 0..(k - 1) : board[row + i][col + i] = player
           \/ /\ row + k <= rows /\ col - k >= 0
              /\ \A i \in 0..(k - 1) : board[row + i][col - i] = player

\* does the full scan find a run of player starting at (row, col)?
FullScanHit(board, k, player, row, col) ==
    LET rows == NumRows(board)
        cols == NumCols(board)
    IN  /\ board[row][col] = player
        /\ \/ col + k <= cols /\ \A i \in 0..(k - 1) : board[row][col + i] = player
           \/ row + k <= rows /\ \A i \in 0..(k - 1) : board[row + i][col] = player
           \/ /\ row + k <= rows /\ col + k <= cols
              /\ \A i \in 0..(k - 1) : board[row + i][col + i] = player
           \/ /\ row + k <= rows /\ col - k + 1 >= 0
              /\ \A i \in 0..(k - 1) : board[row + i][col - i] = player

_check_full_board(board, k) ==
    LET hit(player) == \E row \in DOMAIN board : \E col \in DOMAIN board[row] :
                           FullScanHit(board, k, player, row, col)
    IN  IF hit(PLAYER_X) THEN PLAYER_X
        ELSE IF hit(PLAYER_O) THEN PLAYER_O
        ELSE IF _is_board_full(board) THEN "draw"
        ELSE None

Directions == {<<0, 1>>, <<1, 0>>, <<1, 1>>, <<1, -1>>}

\* AxisCount without the count in the negative direction
AxisCount_oneway(board, row, col, d, player, rows, cols) ==
    1 + _count_in_direction(board, row + d[1], col + d[2], d[1], d[2], player, rows, cols)

\* count for one direction pair through (row, col)
AxisCount(board, row, col, d, player, rows, cols) ==
    1 + _count_in_direction(board, row + d[1], col + d[2], d[1], d[2], player, rows, cols)
      + _count_in_direction(board, row - d[1], col - d[2], -d[1], -d[2], player, rows, cols)

check_win_condition(st, move, k) ==
    LET board == st.board
        rows == NumRows(board)
        cols == NumCols(board)
    IN  IF move = NoMove THEN _check_full_board(board, k)
        ELSE LET row == move[1]
                 col == move[2]
                 pr == PyIndex(row, rows)
                 pc == PyIndex(col, cols)
             IN  IF pr = -1 \/ pc = -1 THEN "IndexError"
                 ELSE LET player == board[pr][pc]
                      IN  IF player \notin {PLAYER_X, PLAYER_O} THEN None
                          ELSE IF \E d \in Directions :
                                     AxisCount(board, row, col, d, player, rows, cols) >= k
                          THEN player
                          ELSE IF _is_board_full(board) THEN "draw"
                          ELSE None

winTesterForK(st, move, k) == check_win_condition(st, move, k)

\* OurAgent.is_terminal, for an agent whose current_game_type is set (after
\* prepare), so that k is never None
is_terminal(self, st) ==
    LET k == self.current_game_type.k
        board == st.board
    IN  IF \E r \in DOMAIN board : \E c \in DOMAIN board[r] :
                   /\ board[r][c] \in {PLAYER_X, PLAYER_O}
                   /\ winTesterForK(st, <<r, c>>, k) # "No win"
        THEN TRUE
        ELSE ~ \E r \in DOMAIN board : \E c \in DOMAIN board[r] : board[r][c] = EmptyCell

---------------------------------------------------------------------------
(* Position hasher *)

RECURSIVE Xor(_, _)
\* a ^ b on non-negative integers
Xor(a, b) ==
    IF a = 0 THEN b
    ELSE IF b = 0 THEN a
    ELSE (((a % 2) + (b % 2)) % 2) + 2 * Xor(a \div 2, b \div 2)

\* One outcome of the random.getrandbits draws of init_zobrist, KeyBits wide:
\* the table number `seed` of the tables the model draws from.
KeyTable(n, m, seed) ==
    [key \in (0..(n - 1)) \X (0..(m - 1)) \X {PLAYER_X, PLAYER_O} |->
        ((seed + 1) * (7 * key[1] + 3 * key[2] + 1) * (IF key[3] = PLAYER_X THEN 5 ELSE 11)
           + seed + key[1] + 2 * key[2]) % (2 ^ KeyBits)]

\* self.zobrist_keys.get((r, c, token), 0)
KeyGet(self, r, c, token) ==
    IF <<r, c, token>> \in DOMAIN self.zobrist_keys
    THEN self.zobrist_keys[<<r, c, token>>] ELSE 0

RECURSIVE ZobristFrom_plus(_, _, _, _, _)
\* ZobristFrom with h += key in place of h ^= key
ZobristFrom_plus(self, board, cells, i, h) ==
    IF i > Len(cells) THEN h
    ELSE LET r == cells[i][1]
             c == cells[i][2]
             token == board[r][c]
         IN  ZobristFrom_plus(self, board, cells, i + 1,
                              IF token \in {PLAYER_X, PLAYER_O}
                              THEN (h + KeyGet(self, r, c, token)) % (2 ^ KeyBits) ELSE h)

RECURSIVE ZobristFrom(_, _, _, _, _)
\* the loop of compute_zobrist from position i of the row-major scan, h so far
ZobristFrom(self, board, cells, i, h) ==
    IF i > Len(cells) THEN h
    ELSE LET r == cells[i][1]
             c == cells[i][2]
             token == board[r][c]
         IN  ZobristFrom(self, board, cells, i + 1,
                         IF token \in {PLAYER_X, PLAYER_O}
                         THEN Xor(h, KeyGet(self, r, c, token)) ELSE h)

compute_zobrist(self, st) ==
    ZobristFrom(self, st.board, AllCells(NumRows(st.board), NumCols(st.board)), 1, 0)

---------------------------------------------------------------------------
(* Move search engine *)

\* alpha=None / beta=None of a direct minimax call
NoBound == Inf + Inf

RECURSIVE StableSort(_, _)
\* list.sort(key=eval) for reverse = FALSE and list.sort(key=eval, reverse=True)
\* for reverse = TRUE: both keep the original order of elements with equal keys
StableSort(list, reverse) ==
    IF Len(list) <= 1 THEN list
    ELSE LET sorted == StableSort(SubSeq(list, 1, Len(list) - 1), reverse)
             x == list[Len(list)]
             p == Cardinality({i \in 1..Len(sorted) :
                     IF reverse THEN sorted[i].eval >= x.eval ELSE sorted[i].eval <= x.eval})
         IN  SubSeq(sorted, 1, p) \o <<x>> \o SubSeq(sorted, p + 1, Len(sorted))

\* the (move, child_state, eval) triples of the legal moves, in row-major order
Children(self, st) ==
    LET moves == get_available_moves(st)
    IN  [i \in 1..Len(moves) |->
            LET child_state == ChildState(st, moves[i])
            IN  [move |-> moves[i], state |-> child_state,
                 eval |-> static_eval(self, child_state)]]

RECURSIVE minimax(_, _, _, _, _, _, _, _)
RECURSIVE minimax_loop(_, _, _, _, _, _, _)
RECURSIVE MinimaxCutoff(_, _, _, _, _, _, _)

\* The body of the for loop of minimax for child i: sub is what the recursive
\* call returned, and best_value becomes its max (X) or min (O) with sub.value.
MinimaxVisit(child_list, i, opt, alpha, beta, best_value, sub) ==
    MinimaxCutoff(sub.self, child_list, i, opt, alpha, beta,
                  IF opt.current_player = PLAYER_X
                  THEN Max2(best_value, sub.value) ELSE Min2(best_value, sub.value))

\* if pruning: tighten alpha (X) or beta (O); if beta <= alpha count a cutoff
\* and break
MinimaxCutoff(self, child_list, i, opt, alpha, beta, best) ==
    LET alpha2 == IF opt.pruning /\ opt.current_player = PLAYER_X
                  THEN Max2(alpha, best) ELSE alpha
        beta2 == IF opt.pruning /\ opt.current_player # PLAYER_X
                 THEN Min2(beta, best) ELSE beta
    IN  IF opt.pruning /\ beta2 <= alpha2
        THEN [value |-> best,
              self |-> [self EXCEPT !.alpha_beta_cutoffs_this_turn = @ + 1]]
        ELSE minimax_loop(self, child_list, i + 1, opt, alpha2, beta2, best)

\* The for loop of minimax over child_list from position i.  opt holds the
\* arguments the loop passes on unchanged: current_player, depth_remaining,
\* pruning, use_zobrist, order_moves.
minimax_loop(self, child_list, i, opt, alpha, beta, best_value) ==
    IF i > Len(child_list) THEN [value |-> best_value, self |-> self]
    ELSE MinimaxVisit(child_list, i, opt, alpha, beta, best_value,
                      minimax(self, child_list[i].state, opt.depth_remaining - 1,
                              opt.pruning, alpha, beta, opt.use_zobrist, opt.order_moves))

\* the end of minimax: if use_zobrist, store best_value under h
MinimaxStore(use_zobrist, h, done) ==
    IF use_zobrist
    THEN [value |-> done.value,
          self |-> [done.self EXCEPT
                      !.transposition_table =
                          [x \in DOMAIN @ \cup {h} |-> IF x = h THEN done.value ELSE @[x]],
                      !.zobrist_write_count = @ + 1]]
    ELSE done

\* a hit that also counts a write
MinimaxHit_rewrite(self, h) ==
    [value |-> self.transposition_table[h],
     self |-> [self EXCEPT !.zobrist_hit_count = @ + 1,
                           !.zobrist_write_count = @ + 1]]

\* h in self.transposition_table: count the hit and return the stored value
MinimaxHit(self, h) ==
    [value |-> self.transposition_table[h],
     self |-> [self EXCEPT !.zobrist_hit_count = @ + 1]]

minimax(self, st, depth_remaining, pruning, alpha, beta, use_zobrist, order_moves) ==
    IF depth_remaining = 0 \/ is_terminal(self, st)
    THEN [value |-> static_eval(self, st),
          self |-> [self EXCEPT !.num_static_evals_this_turn = @ + 1]]
    ELSE
    LET h == compute_zobrist(self, st)
        self1 == IF use_zobrist
                 THEN [self EXCEPT !.zobrist_read_attempt_count = @ + 1] ELSE self
    IN  IF use_zobrist /\ h \in DOMAIN self.transposition_table
        THEN MinimaxHit(self1, h)
        ELSE
        LET a0 == IF pruning /\ alpha = NoBound THEN -Inf ELSE alpha
            b0 == IF pruning /\ beta = NoBound THEN Inf ELSE beta
            current_player == st.whose_move
            unsorted == Children(self, st)
            child_list == IF order_moves
                          THEN StableSort(unsorted, current_player = PLAYER_X)
                          ELSE unsorted
            opt == [current_player |-> current_player, depth_remaining |-> depth_remaining,
                    pruning |-> pruning, use_zobrist |-> use_zobrist,
                    order_moves |-> order_moves]
        IN  MinimaxStore(use_zobrist, h,
                         minimax_loop(self1, child_list, 1, opt, a0, b0,
                                      IF current_player = PLAYER_X THEN -Inf ELSE Inf))

\* best_value before the root loop of make_move
InitialBestValue(playing) == IF playing = PLAYER_X THEN -Inf ELSE Inf

\* Improves with both comparisons reversed
Improves_reversed(playing, value, best_value) ==
    IF playing = PLAYER_X THEN value < best_value ELSE value > best_value

\* Improves with non-strict comparisons
Improves_nonstrict(playing, value, best_value) ==
    IF playing = PLAYER_X THEN value >= best_value ELSE value <= best_value

\* the strict comparisons of the root loop: value > best_value for X,
\* value < best_value for O
Improves(playing, value, best_value) ==
    IF playing = PLAYER_X THEN value > best_value ELSE value < best_value

\* One pass of the root loop's if / elif on (move, value): acc holds alpha,
\* beta, best_move and best_value
RootUpdate(playing, acc, move, value) ==
    IF playing = PLAYER_X /\ Improves(PLAYER_X, value, acc.best_value)
    THEN [acc EXCEPT !.best_value = value, !.best_move = move,
                     !.alpha = Max2(acc.alpha, value)]
    ELSE IF playing = PLAYER_O /\ Improves(PLAYER_O, value, acc.best_value)
    THEN [acc EXCEPT !.best_value = value, !.best_move = move,
                     !.beta = Min2(acc.beta, value)]
    ELSE acc

RECURSIVE root_loop(_, _, _, _, _)
RECURSIVE ApplyEach(_, _, _)
RECURSIVE RootCutoff(_, _, _, _, _)

\* The for loop of make_move over ordered_children from position i.  opt holds
\* use_alpha_beta, use_zobrist_hashing and max_ply; sub is what the minimax
\* call on candidate i returned.
RootVisit(self, ordered_children, i, opt, acc, sub) ==
    RootCutoff(sub.self, ordered_children, i, opt,
               RootUpdate(self.playing, acc, ordered_children[i].move, sub.value))

\* if use_alpha_beta and beta <= alpha: count a cutoff and break
RootCutoff(self, ordered_children, i, opt, acc) ==
    IF opt.use_alpha_beta /\ acc.beta <= acc.alpha
    THEN [self |-> [self EXCEPT !.alpha_beta_cutoffs_this_turn = @ + 1], acc |-> acc]
    ELSE root_loop(self, ordered_children, i + 1, opt, acc)

root_loop(self, ordered_children, i, opt, acc) ==
    IF i > Len(ordered_children) THEN [self |-> self, acc |-> acc]
    ELSE RootVisit(self, ordered_children, i, opt, acc,
                   minimax(self, ordered_children[i].state, opt.max_ply - 1,
                           opt.use_alpha_beta, acc.alpha, acc.beta,
                           opt.use_zobrist_hashing, TRUE))

\* make_move up to the end of the root loop
make_move_search(self, current_state, use_alpha_beta, use_zobrist_hashing, max_ply) ==
    root_loop([self EXCEPT !.alpha_beta_cutoffs_this_turn = 0,
                           !.num_static_evals_this_turn = 0],
              StableSort(Children(self, current_state), self.playing = PLAYER_X), 1,
              [use_alpha_beta |-> use_alpha_beta,
               use_zobrist_hashing |-> use_zobrist_hashing, max_ply |-> max_ply],
              [alpha |-> -Inf, beta |-> Inf, best_move |-> NoMove,
               best_value |-> InitialBestValue(self.playing)])

\* The store after apply_move(current_state, move) for each move of moves
\* from position i, current_state being the object at reference 1
ApplyEach(hp, moves, i) ==
    IF i > Len(moves) THEN hp
    ELSE ApplyEach(apply_move(hp, 1, moves[i]).heap, moves, i + 1)

\* The caller's current_state object after make_move: make_move calls
\* apply_move on it once per available move and once more for best_move
CallerState(current_state, best_move) ==
    Deref(ApplyEach(StoreOf(current_state),
                    get_available_moves(current_state)
                       \o (IF best_move = NoMove THEN <<>> ELSE <<best_move>>), 1), 1)

\* what generate_utterance returns: some string
Remark == "remark"

\* what make_move returns with best_move: [[best_move, new_state], new_remark].
\* "improved" tells whether the root loop set best_move.
\* make_move returning current_state in place of new_state
Returned_same(current_state, done, best_move) ==
    [raised |-> None,
     ret |-> << <<best_move, current_state>>, Remark >>,
     current_state |-> CallerState(current_state, best_move),
     move |-> best_move,
     best_value |-> done.acc.best_value,
     improved |-> done.acc.best_move # NoMove,
     self |-> done.self]

Returned(current_state, done, best_move) ==
    [raised |-> None,
     ret |-> << <<best_move, ChildState(current_state, best_move)>>, Remark >>,
     current_state |-> CallerState(current_state, best_move),
     move |-> best_move,
     best_value |-> done.acc.best_value,
     improved |-> done.acc.best_move # NoMove,
     self |-> done.self]

\* make_move after the root loop.  The outcomes: one, or one per
\* random.choice(available_moves).
make_move_finish(current_state, done, available_moves) ==
    IF done.acc.best_move = NoMove
    THEN IF Len(available_moves) = 0
         THEN {[raised |-> "ValueError: No valid moves available!",
                ret |-> <<>>, current_state |-> CallerState(current_state, NoMove),
                move |-> NoMove, best_value |-> done.acc.best_value,
                improved |-> FALSE, self |-> done.self]}
         ELSE {Returned(current_state, done, available_moves[j]) :
                  j \in 1..Len(available_moves)}
    ELSE {Returned(current_state, done, done.acc.best_move)}

make_move(self, current_state, use_alpha_beta, use_zobrist_hashing, max_ply) ==
    make_move_finish(current_state,
                     make_move_search(self, current_state, use_alpha_beta,
                                      use_zobrist_hashing, max_ply),
                     get_available_moves(current_state))

\* OurAgent() followed by prepare(game_type, what_side_to_play), with the key
\* table init_zobrist draws
prepare(game_type, what_side_to_play, seed) ==
    [playing |-> what_side_to_play,
     current_game_type |-> game_type,
     zobrist_keys |-> KeyTable(game_type.n, game_type.m, seed),
     transposition_table |-> <<>>,
     alpha_beta_cutoffs_this_turn |-> 0,
     num_static_evals_this_turn |-> 0,
     zobrist_write_count |-> 0,
     zobrist_read_attempt_count |-> 0,
     zobrist_hit_count |-> 0]

---------------------------------------------------------------------------
(* Games on a GameN x GameM board: the states reachable from the initial    *)
(* board by alternating legal moves, the game ending at the first win or    *)
(* draw the win tester reports, as OfflineGameMaster.play_move ends it.     *)

NoRes == [op |-> "none"]
NoGm == <<>>
EmptyHeap == [states |-> <<>>, boards |-> <<>>]

\* Initial boards: no forbidden square, or up to MaxForbidden of a corner and
\* the centre
ForbiddenLayouts(n, m) ==
    {f \in SUBSET {<<0, 0>>, <<n \div 2, m \div 2>>} : Cardinality(f) <= MaxForbidden}

InitGame(sides, seeds, layouts) ==
    /\ \E side \in sides : \E seed \in seeds :
          agent = prepare([n |-> GameN, m |-> GameM, k |-> GameK], side, seed)
    /\ \E f \in layouts :
          state = [board |-> InitialBoard(GameN, GameM, f), whose_move |-> PLAYER_X]
    /\ last_move = NoMove
    /\ heap = EmptyHeap
    /\ in_ref = NoRef
    /\ out_ref = NoRef
    /\ gm = NoGm
    /\ res = NoRes

\* the result OfflineGameMaster.play_move got from win_tester for the last move
GameResult == IF last_move = NoMove THEN None
              ELSE check_win_condition(state, last_move, agent.current_game_type.k)

\* One ply: a legal move of the side to move, while the game is not over
Play(move) ==
    /\ GameResult = None
    /\ \E j \in 1..Len(get_available_moves(state)) : get_available_moves(state)[j] = move
    /\ state' = ChildState(state, move)
    /\ last_move' = move
    /\ res' = NoRes
    /\ UNCHANGED <<agent, heap, in_ref, out_ref, gm>>

\* check_win_condition(state, move, k) on the current state, with the last
\* move or with move = None
Classify(move) ==
    /\ res' = [op |-> "check_win_condition", move |-> move,
               out |-> check_win_condition(state, move, agent.current_game_type.k)]
    /\ UNCHANGED <<agent, state, last_move, heap, in_ref, out_ref, gm>>

GameCells == (0..(GameN - 1)) \X (0..(GameM - 1))

Init == InitGame({PLAYER_X}, {0}, ForbiddenLayouts(GameN, GameM))

Next ==
    \/ \E move \in GameCells : Play(move)
    \/ \E move \in {last_move, NoMove} : Classify(move)

Spec == Init /\ [][Next]_vars

---------------------------------------------------------------------------
(* Properties of the win detector on the reachable game states *)

InBoard(board, r, c) == r \in DOMAIN board /\ c \in DOMAIN board[r]

\* some k contiguous cells of one axis, all inside the board, hold token
HasRun(board, k, token) ==
    \E r \in DOMAIN board : \E c \in DOMAIN board[r] : \E d \in Directions :
        \A i \in 0..(k - 1) :
            /\ InBoard(board, r + i * d[1], c + i * d[2])
            /\ board[r + i * d[1]][c + i * d[2]] = token

NoEmptyCell(board) ==
    \A r \in DOMAIN board : \A c \in DOMAIN board[r] : board[r][c] # EmptyCell

Classified == res.op = "check_win_condition"

\* C4: check_win_condition, with the last move or with move = None, returns
\* 'draw' if and only if the board has no Empty cell and no axis holds a run
\* of k cells of one token.
C4_DrawIffFullAndNoRun ==
    Classified =>
        (res.out = "draw" <=>
            /\ NoEmptyCell(state.board)
            /\ ~ HasRun(state.board, agent.current_game_type.k, PLAYER_X)
            /\ ~ HasRun(state.board, agent.current_game_type.k, PLAYER_O))

\* C5: on every state of a game that stops at the first win or draw, the
\* last-move variant and the full-scan variant of check_win_condition return
\* the same outcome.
C5_VariantsAgree ==
    Classified /\ last_move # NoMove =>
        res.out = check_win_condition(state,
                                      IF res.move = NoMove THEN last_move ELSE NoMove,
                                      agent.current_game_type.k)

\* a win of O found by the last-move variant on a board the full scan also
\* classifies
C5_Witness ==
    /\ Classified /\ last_move # NoMove /\ res.move = last_move
    /\ res.out = PLAYER_O

\* C9: a board without a legal move is classified as a win or as a draw,
\* never as ongoing, so play_move never asks an agent to move on it.
C9_NoMovesIsTerminal ==
    Classified /\ Len(get_available_moves(state)) = 0 =>
        res.out \in {PLAYER_X, PLAYER_O, "draw"}

---------------------------------------------------------------------------
(* A match between an OurAgent prepared for one side and an arbitrary       *)
(* opponent: on its turn the agent is asked for a move once, and the state  *)
(* it returns becomes the current state while the game is not over.         *)

\* agent.make_move(state, remark, use_alpha_beta=..., max_ply=...) on the
\* agent's turn, the transposition cache disabled
MakeMove(max_ply, use_alpha_beta) ==
    /\ res = NoRes
    /\ state.whose_move = agent.playing
    /\ \E o \in make_move(agent, state, use_alpha_beta, FALSE, max_ply) :
          /\ agent' = o.self
          /\ state' = o.current_state
          /\ res' = [op |-> "make_move", max_ply |-> max_ply,
                     use_alpha_beta |-> use_alpha_beta, raised |-> o.raised,
                     ret |-> o.ret, move |-> o.move, best_value |-> o.best_value,
                     improved |-> o.improved]
    /\ UNCHANGED <<last_move, heap, in_ref, out_ref, gm>>

\* the caller takes the returned state as the next state of the game
\* (game_history.append(new_state) in play_move)
Accept ==
    /\ res.op = "make_move"
    /\ res.raised = None
    /\ GameResult = None
    /\ state' = res.ret[1][2]
    /\ last_move' = res.ret[1][1]
    /\ res' = NoRes
    /\ UNCHANGED <<agent, heap, in_ref, out_ref, gm>>

\* a legal move of the opponent
OpponentMove(move) ==
    /\ state.whose_move # agent.playing
    /\ Play(move)

InitSearch == InitGame({PLAYER_X, PLAYER_O}, {0}, ForbiddenLayouts(GameN, GameM))

NextSearch ==
    \/ \E move \in GameCells : OpponentMove(move)
    \/ \E max_ply \in 1..MaxPly : \E use_alpha_beta \in BOOLEAN :
          MakeMove(max_ply, use_alpha_beta)
    \/ Accept

SpecSearch == InitSearch /\ [][NextSearch]_vars

---------------------------------------------------------------------------
(* Direct calls of minimax on the reachable game states *)

\* agent.minimax(state, depth_remaining, pruning), alpha and beta left at
\* None, the transposition cache disabled
Minimax(depth_remaining, pruning) ==
    /\ agent.num_static_evals_this_turn < MaxEvals
    /\ LET r == minimax(agent, state, depth_remaining, pruning, NoBound, NoBound,
                        FALSE, TRUE)
       IN  /\ agent' = r.self
           /\ res' = [op |-> "minimax", depth_remaining |-> depth_remaining,
                      pruning |-> pruning, value |-> r.value]
    /\ UNCHANGED <<state, last_move, heap, in_ref, out_ref, gm>>

\* the game up to the call
PlayOn(move) == res = NoRes /\ Play(move)

NextMinimax ==
    \/ \E move \in GameCells : PlayOn(move)
    \/ \E depth_remaining \in 0..MaxDepth : \E pruning \in BOOLEAN :
          Minimax(depth_remaining, pruning)

InitMinimax == InitGame({PLAYER_X}, {0}, {{}})

SpecMinimax == InitMinimax /\ [][NextMinimax]_vars

---------------------------------------------------------------------------
(* Games in which the agent is asked for a move at any turn, whatever       *)
(* what_side_to_play it was prepared with: prepare stores the argument as   *)
(* it comes, None (the value the constructor gives playing) included, and   *)
(* OfflineGameMaster assigns the agents to the turns without reading        *)
(* agent.playing.                                                           *)

\* agent.make_move(state, remark, use_alpha_beta=..., max_ply=...) while the
\* game is not over, the transposition cache disabled
AskMove(max_ply, use_alpha_beta) ==
    /\ res = NoRes
    /\ GameResult = None
    /\ \E o \in make_move(agent, state, use_alpha_beta, FALSE, max_ply) :
          /\ agent' = o.self
          /\ state' = o.current_state
          /\ res' = [op |-> "make_move", max_ply |-> max_ply,
                     use_alpha_beta |-> use_alpha_beta, raised |-> o.raised,
                     ret |-> o.ret, move |-> o.move, best_value |-> o.best_value,
                     improved |-> o.improved]
    /\ UNCHANGED <<last_move, heap, in_ref, out_ref, gm>>

\* an ApplyN x ApplyM board without forbidden squares
InitSide ==
    /\ \E side \in {PLAYER_X, PLAYER_O, None} :
          agent = prepare([n |-> ApplyN, m |-> ApplyM, k |-> GameK], side, 0)
    /\ state = [board |-> InitialBoard(ApplyN, ApplyM, {}), whose_move |-> PLAYER_X]
    /\ last_move = NoMove
    /\ heap = EmptyHeap
    /\ in_ref = NoRef
    /\ out_ref = NoRef
    /\ gm = NoGm
    /\ res = NoRes

NextSide ==
    \/ \E move \in GameCells : Play(move)
    \/ \E max_ply \in 1..MaxPly : \E use_alpha_beta \in BOOLEAN :
          AskMove(max_ply, use_alpha_beta)
    \/ Accept

SpecSide == InitSide /\ [][NextSide]_vars

---------------------------------------------------------------------------
(* Properties of the search *)

SetMax(S) == CHOOSE x \in S : \A y \in S : x >= y
SetMin(S) == CHOOSE x \in S : \A y \in S : x <= y

\* a win (some player holds a run of k) or a draw (no Empty cell left)
WinOrDraw(st, k) ==
    \/ HasRun(st.board, k, PLAYER_X)
    \/ HasRun(st.board, k, PLAYER_O)
    \/ NoEmptyCell(st.board)

RECURSIVE DepthLimitedMinimax(_, _, _)
\* the depth-limited minimax value: static_eval at depth 0 and at a win or a
\* draw, otherwise the maximum (X to move) or minimum (O to move) over the
\* legal moves
DepthLimitedMinimax(self, st, d) ==
    IF d = 0 \/ WinOrDraw(st, self.current_game_type.k)
    THEN static_eval(self, st)
    ELSE LET moves == get_available_moves(st)
             vals == {DepthLimitedMinimax(self, ChildState(st, moves[j]), d - 1) :
                         j \in 1..Len(moves)}
         IN  IF st.whose_move = PLAYER_X THEN SetMax(vals) ELSE SetMin(vals)

\* C1: with pruning and the cache disabled, minimax returns the depth-limited
\* minimax value of the state for every remaining depth; a non-terminal state
\* that holds pieces is expanded into its children when the depth is positive.
C1_MinimaxValue ==
    res.op = "minimax" /\ ~ res.pruning =>
        res.value = DepthLimitedMinimax(agent, state, res.depth_remaining)

\* C2: on a board with a legal move, make_move with use_alpha_beta = TRUE and
\* with use_alpha_beta = FALSE return the same root move and the same best
\* value, for every max_ply.
C2_PruningSameResult ==
    res.op = "make_move" /\ Len(get_available_moves(state)) > 0 =>
        \A o \in make_move(agent, state, ~ res.use_alpha_beta, FALSE, res.max_ply) :
            /\ o.raised = res.raised
            /\ o.move = res.move
            /\ o.best_value = res.best_value

\* a 3-ply search with pruning on a board that holds pieces and leaves the
\* agent several moves
C2_Witness ==
    /\ res.op = "make_move" /\ res.use_alpha_beta /\ res.max_ply = 3
    /\ res.raised = None
    /\ last_move # NoMove
    /\ Len(get_available_moves(state)) >= 3

\* C8: whenever no root candidate strictly improves on the initial extreme
\* value, make_move raises and returns nothing, and the board has no legal
\* move; it never returns a substituted legal move.
C8_NoImprovementRaises ==
    res.op = "make_move" /\ ~ res.improved =>
        /\ res.raised # None
        /\ res.ret = <<>>
        /\ Len(get_available_moves(state)) = 0

---------------------------------------------------------------------------
(* Win-detector scenarios: boards of several shapes and every k of          *)
(* KMin..KMax on which one side holds all cells but one of a run of k,      *)
(* placed anywhere the run fits, possibly with an opposing piece right      *)
(* after its end; that side then moves.                                     *)

PieceCount(board, token) ==
    Cardinality({cell \in (DOMAIN board) \X (DOMAIN board[0]) :
                    board[cell[1]][cell[2]] = token})

Opponent(token) == IF token = PLAYER_X THEN PLAYER_O ELSE PLAYER_X

\* cell number i of the run starting at (r0, c0) in direction d
RunCell(r0, c0, d, i) == <<r0 + i * d[1], c0 + i * d[2]>>

ScenarioBoard(n, m, k, r0, c0, d, last, mover, noise) ==
    [r \in 0..(n - 1) |-> [c \in 0..(m - 1) |->
        IF \E i \in (0..(k - 1)) \ {last} : RunCell(r0, c0, d, i) = <<r, c>> THEN mover
        ELSE IF noise /\ RunCell(r0, c0, d, k) = <<r, c>> THEN Opponent(mover)
        ELSE EmptyCell]]

InitWin ==
    \E k \in KMin..KMax : \E n \in {WinDim - 1, WinDim} : \E d \in Directions :
    \E r0 \in 0..(n - 1) : \E c0 \in 0..(WinDim - 1) : \E last \in 0..(k - 1) :
    \E mover \in {PLAYER_X, PLAYER_O} : \E noise \in BOOLEAN :
        /\ \A i \in 0..(k - 1) :
              /\ RunCell(r0, c0, d, i)[1] \in 0..(n - 1)
              /\ RunCell(r0, c0, d, i)[2] \in 0..(WinDim - 1)
        /\ agent = prepare([n |-> n, m |-> WinDim, k |-> k], PLAYER_X, 0)
        /\ state = [board |-> ScenarioBoard(n, WinDim, k, r0, c0, d, last, mover, noise),
                    whose_move |-> mover]
        /\ last_move = RunCell(r0, c0, d, IF last = 0 THEN 1 ELSE 0)
        /\ heap = EmptyHeap
        /\ in_ref = NoRef
        /\ out_ref = NoRef
        /\ gm = NoGm
        /\ res = NoRes

\* the move of the side that holds k - 1 cells of the run
ScenarioMove(move) ==
    /\ PieceCount(state.board, state.whose_move) = agent.current_game_type.k - 1
    /\ move[1] \in DOMAIN state.board
    /\ move[2] \in DOMAIN state.board[0]
    /\ Play(move)

NextWin ==
    \/ \E move \in (0..(WinDim - 1)) \X (0..(WinDim - 1)) : ScenarioMove(move)
    \/ \E move \in {last_move, NoMove} : Classify(move)

SpecWin == InitWin /\ [][NextWin]_vars

\* the cell lies in k contiguous cells of one axis that all hold its token
RunThrough(board, k, cell) ==
    \E d \in Directions : \E j \in 0..(k - 1) :
        \A i \in 0..(k - 1) :
            /\ InBoard(board, cell[1] + (i - j) * d[1], cell[2] + (i - j) * d[2])
            /\ board[cell[1] + (i - j) * d[1]][cell[2] + (i - j) * d[2]]
                   = board[cell[1]][cell[2]]

\* C3: for every axis, every k and every placement of the run,
\* check_win_condition(state, move, k) returns the mover's token exactly when
\* the move completes a run of k cells of the mover, and None for the state
\* and move before it.
C3_WinAtCompletingMove ==
    Classified /\ res.move # NoMove =>
        LET token == state.board[res.move[1]][res.move[2]]
            completes == RunThrough(state.board, agent.current_game_type.k, res.move)
        IN  /\ completes => res.out = token
            /\ ~ completes => res.out = None

\* O completes an anti-diagonal run of KMax cells from the top right corner
C3_Witness ==
    /\ Classified /\ res.move = last_move /\ res.out = PLAYER_O
    /\ agent.current_game_type.k = KMax
    /\ last_move = <<0, NumCols(state.board) - 1>>
    /\ state.board[1][NumCols(state.board) - 2] = PLAYER_O
    /\ state.whose_move = PLAYER_X

---------------------------------------------------------------------------
(* apply_move on State objects: a caller holds a State object, applies      *)
(* moves to it, may change the returned object, and may go on from the      *)
(* returned object.  Moves range over the cells and one step outside.       *)

InitApply ==
    /\ agent = prepare([n |-> ApplyN, m |-> ApplyM, k |-> GameK], PLAYER_X, 0)
    /\ \E f \in ForbiddenLayouts(ApplyN, ApplyM) :
          /\ state = [board |-> InitialBoard(ApplyN, ApplyM, f), whose_move |-> PLAYER_X]
          /\ heap = StoreOf(state)
    /\ last_move = NoMove
    /\ in_ref = 1
    /\ out_ref = NoRef
    /\ gm = NoGm
    /\ res = NoRes

\* new_state = agent.apply_move(state, move); the result of an earlier call
\* is dropped
ApplyMove(move) ==
    LET a == apply_move(StoreOf(Deref(heap, in_ref)), 1, move)
    IN  /\ heap' = a.heap
        /\ in_ref' = 1
        /\ out_ref' = a.ref
        /\ res' = [op |-> "apply_move", move |-> move, raised |-> a.raised,
                   before |-> Deref(heap, in_ref), changed |-> FALSE]
        /\ UNCHANGED <<agent, state, last_move, gm>>

\* a later change to the returned state: new_state.board[r][c] = token
ChangeReturnedCell(r, c, token) ==
    /\ res.op = "apply_move" /\ out_ref # NoRef /\ ~ res.changed
    /\ heap' = WriteCell(heap, out_ref, r, c, token)
    /\ res' = [res EXCEPT !.changed = TRUE]
    /\ UNCHANGED <<agent, state, last_move, in_ref, out_ref, gm>>

\* a later change to the returned state: new_state.whose_move = token
ChangeReturnedWhoseMove(token) ==
    /\ res.op = "apply_move" /\ out_ref # NoRef /\ ~ res.changed
    /\ heap' = WriteWhoseMove(heap, out_ref, token)
    /\ res' = [res EXCEPT !.changed = TRUE]
    /\ UNCHANGED <<agent, state, last_move, in_ref, out_ref, gm>>

\* the caller goes on from the returned state
Continue ==
    /\ res.op = "apply_move" /\ out_ref # NoRef /\ ~ res.changed
    /\ heap' = StoreOf(Deref(heap, out_ref))
    /\ in_ref' = 1
    /\ out_ref' = NoRef
    /\ res' = NoRes
    /\ UNCHANGED <<agent, state, last_move, gm>>

NextApply ==
    \/ \E move \in (-1..ApplyN) \X (-1..ApplyM) : ApplyMove(move)
    \/ \E r \in 0..(ApplyN - 1) : \E c \in 0..(ApplyM - 1) :
          ChangeReturnedCell(r, c, ForbiddenCell)
    \/ \E token \in {PLAYER_X, PLAYER_O} : ChangeReturnedWhoseMove(token)
    \/ Continue

SpecApply == InitApply /\ [][NextApply]_vars

Applied == res.op = "apply_move"

\* the cell board[r][c] of the move addresses
CellOf(board, move) ==
    <<PyIndex(move[1], NumRows(board)), PyIndex(move[2], NumCols(board))>>

\* C6: a successful apply_move leaves the input state unchanged and returns a
\* new state whose board differs from the input only at the move cell, which
\* holds the input's whose_move, and whose whose_move is flipped; a later
\* change to the returned state never shows in the input state.
C6_ApplyCopies ==
    Applied /\ res.raised = None =>
        /\ out_ref # in_ref
        /\ Deref(heap, in_ref) = res.before
        /\ ~ res.changed =>
              LET cell == CellOf(res.before.board, res.move)
                  new == Deref(heap, out_ref)
              IN  /\ res.before.board[cell[1]][cell[2]] = EmptyCell
                  /\ new.board = [res.before.board EXCEPT
                                     ![cell[1]][cell[2]] = res.before.whose_move]
                  /\ new.whose_move = Opponent(res.before.whose_move)

\* the returned state was changed after a successful apply_move of O
C6_Witness ==
    /\ Applied /\ res.raised = None /\ res.changed
    /\ res.move[1] >= 0 /\ res.move[2] >= 0
    /\ res.before.whose_move = PLAYER_O
    /\ Deref(heap, out_ref).board # Deref(heap, in_ref).board
    /\ PieceCount(res.before.board, PLAYER_X) >= 2

\* C7: apply_move fails, and returns no new state, whenever the target cell
\* is out of bounds or occupied; it succeeds only for an in-bounds Empty cell.
C7_InvalidMoveFails ==
    Applied =>
        LET board == res.before.board
            inside == /\ res.move[1] \in 0..(NumRows(board) - 1)
                      /\ res.move[2] \in 0..(NumCols(board) - 1)
            valid == inside /\ board[res.move[1]][res.move[2]] = EmptyCell
        IN  /\ ~ valid => res.raised # None /\ out_ref = NoRef
            /\ valid => res.raised = None /\ out_ref # NoRef

---------------------------------------------------------------------------
(* Hashing along games, for each of the key tables *)

\* agent.compute_zobrist(state)
Hash ==
    /\ res' = [op |-> "compute_zobrist", value |-> compute_zobrist(agent, state)]
    /\ UNCHANGED <<agent, state, last_move, heap, in_ref, out_ref, gm>>

InitHash == InitGame({PLAYER_X}, 0..MaxSeed, ForbiddenLayouts(GameN, GameM))

NextHash ==
    \/ \E move \in GameCells : Play(move)
    \/ Hash

SpecHash == InitHash /\ [][NextHash]_vars

\* C10: the hash depends only on the board content and the key table: the
\* hash of apply_move(state, (r, c)) is hash(state) XOR key(r, c, mover), so
\* states with the same cells hash alike whatever the move order, and hashing
\* an unchanged state again gives the same value.
C10_HashIsXorOfKeys ==
    [][/\ state' # state =>
             compute_zobrist(agent', state') =
                 Xor(compute_zobrist(agent, state),
                     KeyGet(agent, last_move'[1], last_move'[2], state.whose_move))
       /\ state' = state /\ res.op = "compute_zobrist" /\ res'.op = "compute_zobrist" =>
             res'.value = res.value]_vars

\* a hash taken after three moves
C10_Witness ==
    /\ res.op = "compute_zobrist" /\ res.value # 0
    /\ PieceCount(state.board, PLAYER_X) = 2
    /\ PieceCount(state.board, PLAYER_O) = 1

---------------------------------------------------------------------------
(* Matches that start from the empty boards of InitSearch or from a GameN x *)
(* GameM board on which the agent's side holds all cells but one of a run   *)
(* of GameK and is to move (X at (0,0) and (0,1), X to move, is one).       *)

InitEndToEnd ==
    \/ InitSearch
    \/ \E d \in Directions : \E r0 \in 0..(GameN - 1) : \E c0 \in 0..(GameM - 1) :
       \E last \in 0..(GameK - 1) : \E mover \in {PLAYER_X, PLAYER_O} :
          /\ \A i \in 0..(GameK - 1) :
                /\ RunCell(r0, c0, d, i)[1] \in 0..(GameN - 1)
                /\ RunCell(r0, c0, d, i)[2] \in 0..(GameM - 1)
          /\ agent = prepare([n |-> GameN, m |-> GameM, k |-> GameK], mover, 0)
          /\ state = [board |-> ScenarioBoard(GameN, GameM, GameK, r0, c0, d, last,
                                              mover, FALSE),
                      whose_move |-> mover]
          /\ last_move = NoMove
          /\ heap = EmptyHeap
          /\ in_ref = NoRef
          /\ out_ref = NoRef
          /\ gm = NoGm
          /\ res = NoRes

SpecEndToEnd == InitEndToEnd /\ [][NextSearch]_vars

\* some Empty cell completes a run of k for the side to move
CanComplete(st, k) ==
    \E j \in 1..Len(get_available_moves(st)) :
        RunThrough(ChildState(st, get_available_moves(st)[j]).board, k,
                   get_available_moves(st)[j])

\* C11: when the agent's side is to move and some Empty cell completes a run
\* of k for it, make_move with every max_ply >= 1 returns a completing move,
\* and the returned state classifies as a win for the mover (with the move
\* and with move = None).
C11_TakesTheWin ==
    /\ res.op = "make_move"
    /\ GameResult = None
    /\ CanComplete(state, agent.current_game_type.k)
    =>
    /\ res.raised = None
    /\ RunThrough(res.ret[1][2].board, agent.current_game_type.k, res.ret[1][1])
    /\ check_win_condition(res.ret[1][2], res.ret[1][1], agent.current_game_type.k)
           = state.whose_move
    /\ check_win_condition(res.ret[1][2], NoMove, agent.current_game_type.k)
           = state.whose_move

\* the example: X at (0,0) and (0,1), every other cell Empty, X to move, a
\* 3-ply search; make_move returned (0,2)
C11_Witness ==
    /\ res.op = "make_move" /\ res.max_ply = MaxPly /\ res.move = <<0, 2>>
    /\ agent.playing = PLAYER_X /\ state.whose_move = PLAYER_X
    /\ PieceCount(state.board, PLAYER_X) = 2 /\ PieceCount(state.board, PLAYER_O) = 0
    /\ state.board[0][0] = PLAYER_X /\ state.board[0][1] = PLAYER_X

---------------------------------------------------------------------------
(* Root selection *)

\* the search values of the root candidates c: minimax of each child at
\* max_ply - 1, pruning and cache disabled
CandidateValues(self, c, max_ply) ==
    [i \in 1..Len(c) |->
        minimax(self, c[i].state, max_ply - 1, FALSE, NoBound, NoBound, FALSE, TRUE).value]

\* the best of the values v for the agent's side
BestCandidateValue(self, v) ==
    IF self.playing = PLAYER_X THEN SetMax({v[i] : i \in 1..Len(v)})
    ELSE SetMin({v[i] : i \in 1..Len(v)})

\* candidate j is visited before candidate i: a better static evaluation of
\* the child (higher for X, lower for O), or an equal one and an earlier
\* place in row-major order
VisitedBefore(self, c, j, i) ==
    \/ IF self.playing = PLAYER_X THEN c[j].eval > c[i].eval ELSE c[j].eval < c[i].eval
    \/ c[j].eval = c[i].eval /\ j < i

\* the candidates that attain the best of the values v
BestCandidates(v, best) == {i \in 1..Len(v) : v[i] = best}

\* make_move returned candidate number i of c, the first visited of those in
\* bc, with the value best
FirstBestReturned(self, c, bc, best) ==
    /\ \E i \in bc :
          /\ res.move = c[i].move
          /\ \A j \in bc \ {i} : VisitedBefore(self, c, i, j)
    /\ res.best_value = best

\* the root candidates of the last make_move call that attain the best value
LastBestCandidates ==
    BestCandidates(CandidateValues(agent, Children(agent, state), res.max_ply),
                   BestCandidateValue(agent, CandidateValues(agent, Children(agent, state),
                                                             res.max_ply)))

\* C12: make_move returns the first visited candidate among those that attain
\* the best search value, with that value, and the same state and
\* configuration always yield that move.
C12_FirstBestKept ==
    res.op = "make_move" /\ res.raised = None =>
        /\ FirstBestReturned(agent, Children(agent, state), LastBestCandidates,
                             BestCandidateValue(agent,
                                 CandidateValues(agent, Children(agent, state),
                                                 res.max_ply)))
        /\ \A o \in make_move(agent, state, res.use_alpha_beta, FALSE, res.max_ply) :
              o.move = res.move

\* O answers a first move of X, several candidates tie for the best value, and
\* the returned move is not the first cell in row-major order
C12_Witness ==
    /\ res.op = "make_move" /\ res.raised = None /\ agent.playing = PLAYER_O
    /\ PieceCount(state.board, PLAYER_X) = 1
    /\ Cardinality(LastBestCandidates) >= 2
    /\ res.move # get_available_moves(state)[1]

---------------------------------------------------------------------------
(* Alternation *)

\* the numbers of X and O pieces differ by at most 1, X having moved first,
\* and whose_move is X exactly when they are equal
Alternates(st) ==
    /\ \/ PieceCount(st.board, PLAYER_X) = PieceCount(st.board, PLAYER_O)
       \/ PieceCount(st.board, PLAYER_X) = PieceCount(st.board, PLAYER_O) + 1
    /\ st.whose_move = PLAYER_X <=>
          PieceCount(st.board, PLAYER_X) = PieceCount(st.board, PLAYER_O)

\* C13: every state reached from a board without pieces by successful
\* apply_move calls, X moving first, has piece counts that differ by at most 1
\* and whose_move = X exactly when the counts are equal.
C13_PieceCountsAlternate ==
    /\ Alternates(Deref(heap, in_ref))
    /\ Applied /\ res.raised = None /\ ~ res.changed => Alternates(Deref(heap, out_ref))

\* the fifth successful apply_move of a sequence
C13_Witness ==
    /\ Applied /\ res.raised = None /\ ~ res.changed
    /\ PieceCount(Deref(heap, out_ref).board, PLAYER_X) = 3
    /\ PieceCount(Deref(heap, out_ref).board, PLAYER_O) = 2
    /\ Deref(heap, out_ref).whose_move = PLAYER_O

---------------------------------------------------------------------------
(* OfflineGameMaster: play_move called any number of times on a game        *)
(* between two agents.  An agent is an OurAgent, prepared for its side, or  *)
(* an agent that returns what BaseGameAgent.make_move documents: a tuple    *)
(* (move, new_state, remark) with a legal move and the state after it.      *)
(* At most one of the two agents is an OurAgent, the object in `agent`.     *)

OurAgentKind == "OurAgent"
BaseAgentKind == "BaseGameAgent"

\* max_ply=3, the default of OurAgent.make_move
DefaultMaxPly == 3

\* OfflineGameMaster.__init__; win_tester is TRUE for winTesterForK, FALSE for
\* the default None.  produced_by records, for each entry of move_history,
\* the side of the agent object that produced it.
OfflineGameMaster(initial_state, player_x_agent, player_o_agent, win_tester, k) ==
    [player_x_agent |-> player_x_agent,
     player_o_agent |-> player_o_agent,
     win_tester |-> win_tester,
     k |-> k,
     game_history |-> <<initial_state>>,
     move_history |-> <<>>,
     remark_history |-> <<>>,
     current_player |-> PLAYER_X,
     game_over |-> FALSE,
     winner |-> None,
     produced_by |-> <<>>]

get_current_agent(g) ==
    IF g.current_player = PLAYER_X THEN g.player_x_agent ELSE g.player_o_agent

switch_player_stay(current_player) == current_player

switch_player(current_player) ==
    IF current_player = PLAYER_X THEN PLAYER_O ELSE PLAYER_X

GameOverReturn_never(g) == FALSE

\* if self.game_over: return {'game_over': True, 'winner': self.winner}
GameOverReturn(g) == g.game_over

\* play_move from "Update histories" on, with the unpacked move, new_state
\* and remark
UpdateAndCheck(g, move, new_state, remark) ==
    LET result == IF g.win_tester THEN check_win_condition(new_state, move, g.k) ELSE None
        over == result \in {PLAYER_X, PLAYER_O, "draw"}
    IN  [g EXCEPT !.move_history = Append(@, move),
                  !.game_history = Append(@, new_state),
                  !.remark_history = Append(@, remark),
                  !.produced_by = Append(@, g.current_player),
                  !.game_over = over,
                  !.winner = IF result \in {PLAYER_X, PLAYER_O} THEN result ELSE None,
                  !.current_player = IF over THEN @ ELSE switch_player(@)]

\* move, new_state, remark = <what make_move returned>, and the rest of
\* play_move: [raised, gm]
Unpack(g, made) ==
    IF Len(made) < 3
    THEN [raised |-> "ValueError: not enough values to unpack", gm |-> g]
    ELSE IF Len(made) > 3
    THEN [raised |-> "ValueError: too many values to unpack", gm |-> g]
    ELSE [raised |-> None, gm |-> UpdateAndCheck(g, made[1], made[2], made[3])]

\* what an agent that follows BaseGameAgent.make_move may return
BaseAgentReturns(st) ==
    {<<get_available_moves(st)[j], ChildState(st, get_available_moves(st)[j]), Remark>> :
        j \in 1..Len(get_available_moves(st))}

\* the result dictionary of play_move
MoveInfo(g, made) ==
    [move |-> made[1], remark |-> made[3], game_over |-> g.game_over, winner |-> g.winner]

\* play_move(): `called` tells whether an agent's make_move was called, `made`
\* is what it returned (the empty tuple if it raised)
PlayMove ==
    /\ gm # NoGm
    /\ IF GameOverReturn(gm)
       THEN /\ res' = [op |-> "play_move", called |-> FALSE, kind |-> None, made |-> <<>>,
                       raised |-> None,
                       ret |-> [game_over |-> TRUE, winner |-> gm.winner]]
            /\ UNCHANGED <<agent, state, last_move, gm>>
       ELSE IF get_current_agent(gm) = OurAgentKind
       THEN \E o \in make_move(agent, gm.game_history[Len(gm.game_history)], TRUE, FALSE,
                               DefaultMaxPly) :
               /\ agent' = o.self
               /\ IF o.raised # None
                  THEN /\ res' = [op |-> "play_move", called |-> TRUE, kind |-> OurAgentKind,
                                  made |-> <<>>, raised |-> o.raised, ret |-> None]
                       /\ UNCHANGED <<state, last_move, gm>>
                  ELSE /\ gm' = Unpack(gm, o.ret).gm
                       /\ res' = [op |-> "play_move", called |-> TRUE, kind |-> OurAgentKind,
                                  made |-> o.ret, raised |-> Unpack(gm, o.ret).raised,
                                  ret |-> IF Unpack(gm, o.ret).raised = None
                                          THEN MoveInfo(gm', o.ret) ELSE None]
                       /\ state' = gm'.game_history[Len(gm'.game_history)]
                       /\ last_move' = IF Len(gm'.move_history) = 0 THEN NoMove
                                       ELSE gm'.move_history[Len(gm'.move_history)]
       ELSE /\ agent' = agent
            /\ IF BaseAgentReturns(gm.game_history[Len(gm.game_history)]) = {}
               THEN /\ res' = [op |-> "play_move", called |-> TRUE, kind |-> BaseAgentKind,
                               made |-> <<>>, raised |-> "raised by the agent",
                               ret |-> None]
                    /\ UNCHANGED <<state, last_move, gm>>
               ELSE \E made \in BaseAgentReturns(gm.game_history[Len(gm.game_history)]) :
                       /\ gm' = Unpack(gm, made).gm
                       /\ res' = [op |-> "play_move", called |-> TRUE, kind |-> BaseAgentKind,
                                  made |-> made, raised |-> None,
                                  ret |-> MoveInfo(gm', made)]
                       /\ state' = made[2]
                       /\ last_move' = made[1]
    /\ UNCHANGED <<heap, in_ref, out_ref>>

InitMaster ==
    \E kinds \in {<<OurAgentKind, BaseAgentKind>>, <<BaseAgentKind, OurAgentKind>>,
                  <<BaseAgentKind, BaseAgentKind>>} :
    \E win_tester \in BOOLEAN :
        /\ agent = prepare([n |-> ApplyN, m |-> ApplyM, k |-> GameK],
                           IF kinds[2] = OurAgentKind THEN PLAYER_O ELSE PLAYER_X, 0)
        /\ state = [board |-> InitialBoard(ApplyN, ApplyM, {}), whose_move |-> PLAYER_X]
        /\ gm = OfflineGameMaster(state, kinds[1], kinds[2], win_tester, GameK)
        /\ last_move = NoMove
        /\ heap = EmptyHeap
        /\ in_ref = NoRef
        /\ out_ref = NoRef
        /\ res = NoRes

NextMaster == PlayMove

SpecMaster == InitMaster /\ [][NextMaster]_vars

---------------------------------------------------------------------------
(* Properties of OfflineGameMaster *)

\* C14: what OurAgent.make_move returns has exactly three components (move,
\* resultingState, remark), so a play_move call on a game that is not over,
\* with an OurAgent to move, completes without an unpacking failure.
C14_ThreeComponents ==
    res.op = "play_move" /\ res.kind = OurAgentKind /\ res.made # <<>> =>
        /\ Len(res.made) = 3
        /\ res.raised = None

\* C19: winner is not None only when game_over is True; and once game_over is
\* True, every step leaves the game master and the agent as they are, and is
\* a play_move that calls no agent and returns the stored result.
C19_GameOverAbsorbing ==
    /\ [](gm.winner # None => gm.game_over)
    /\ [][gm.game_over =>
             /\ gm' = gm
             /\ agent' = agent
             /\ res'.op = "play_move" /\ ~ res'.called
             /\ res'.ret = [game_over |-> TRUE, winner |-> gm.winner]]_vars

\* play_move was called after X had won with its third move
C19_Witness ==
    /\ res.op = "play_move" /\ ~ res.called
    /\ gm.game_over /\ gm.winner = PLAYER_X
    /\ Len(gm.move_history) = 5
    /\ res.ret = [game_over |-> TRUE, winner |-> PLAYER_X]

\* C20: game_history is one longer than move_history and remark_history;
\* move_history[i] (counted from 0) was produced by the X agent exactly when
\* i is even; while the game is not over, current_player is X exactly when
\* the number of moves is even.
C20_HistoriesInStep ==
    /\ Len(gm.game_history) = Len(gm.move_history) + 1
    /\ Len(gm.game_history) = Len(gm.remark_history) + 1
    /\ \A i \in 1..Len(gm.move_history) :
          gm.produced_by[i] = PLAYER_X <=> (i - 1) % 2 = 0
    /\ ~ gm.game_over => (gm.current_player = PLAYER_X <=> Len(gm.move_history) % 2 = 0)

\* four moves played, the game not over, the last one produced by the O agent
C20_Witness ==
    /\ Len(gm.move_history) = 4 /\ ~ gm.game_over
    /\ gm.produced_by[4] = PLAYER_O
    /\ gm.current_player = PLAYER_X

---------------------------------------------------------------------------
(* is_terminal along games *)

\* agent.is_terminal(state)
IsTerminal ==
    /\ res' = [op |-> "is_terminal", value |-> is_terminal(agent, state)]
    /\ UNCHANGED <<agent, state, last_move, heap, in_ref, out_ref, gm>>

NextTerminal ==
    \/ \E move \in GameCells : Play(move)
    \/ IsTerminal

SpecTerminal == Init /\ [][NextTerminal]_vars

\* C15: is_terminal returns True exactly when some player holds a run of k
\* or no Empty cell is left, and False for every other state, those that
\* hold pieces included.
C15_TerminalIffWinOrDraw ==
    res.op = "is_terminal" =>
        (res.value <=> WinOrDraw(state, agent.current_game_type.k))

---------------------------------------------------------------------------
(* The transposition cache: calls of minimax and make_move with the cache   *)
(* enabled on the opening state of a game.  res carries, besides the call   *)
(* and its result, the remaining depth of the call that wrote each table    *)
(* entry (stored), which the program does not keep.                         *)

MaxReads == 3
MaxCacheEvals == 10

StoredDepths == IF "stored" \in DOMAIN res THEN res.stored ELSE <<>>

\* agent.minimax(state, depth_remaining, pruning, use_zobrist=True)
MinimaxCached(depth_remaining, pruning) ==
    /\ agent.zobrist_read_attempt_count < MaxReads
    /\ agent.num_static_evals_this_turn <= MaxCacheEvals
    /\ LET r == minimax(agent, state, depth_remaining, pruning, NoBound, NoBound,
                        TRUE, TRUE)
           h == compute_zobrist(agent, state)
       IN  /\ agent' = r.self
           /\ res' = [op |-> "minimax", depth_remaining |-> depth_remaining,
                      pruning |-> pruning, value |-> r.value,
                      stored |-> IF r.self.zobrist_write_count
                                       > agent.zobrist_write_count
                                 THEN [x \in DOMAIN StoredDepths \cup {h} |->
                                          IF x = h THEN depth_remaining
                                          ELSE StoredDepths[x]]
                                 ELSE StoredDepths]
    /\ UNCHANGED <<state, last_move, heap, in_ref, out_ref, gm>>

\* agent.make_move(state, remark, use_alpha_beta=..., use_zobrist_hashing=...,
\* max_ply=...)
MakeMoveCached(max_ply, use_alpha_beta, use_zobrist_hashing) ==
    /\ state.whose_move = agent.playing
    /\ \E o \in make_move(agent, state, use_alpha_beta, use_zobrist_hashing, max_ply) :
          /\ agent' = o.self
          /\ state' = o.current_state
          /\ res' = [op |-> "make_move", max_ply |-> max_ply,
                     use_alpha_beta |-> use_alpha_beta,
                     use_zobrist_hashing |-> use_zobrist_hashing,
                     raised |-> o.raised, ret |-> o.ret, move |-> o.move,
                     best_value |-> o.best_value, improved |-> o.improved,
                     stored |-> StoredDepths]
    /\ UNCHANGED <<last_move, heap, in_ref, out_ref, gm>>

InitCache == InitGame({PLAYER_X}, {0}, ForbiddenLayouts(GameN, GameM))

NextCache ==
    \/ \E depth_remaining \in 0..MaxDepth : \E pruning \in BOOLEAN :
          MinimaxCached(depth_remaining, pruning)
    \/ \E max_ply \in 1..MaxPly : \E use_alpha_beta \in BOOLEAN :
          \E use_zobrist_hashing \in BOOLEAN :
             MakeMoveCached(max_ply, use_alpha_beta, use_zobrist_hashing)

SpecCache == InitCache /\ [][NextCache]_vars

Counters(self) ==
    <<self.alpha_beta_cutoffs_this_turn, self.num_static_evals_this_turn,
      self.zobrist_hit_count, self.zobrist_read_attempt_count,
      self.zobrist_write_count>>

ZeroCounters(self) ==
    [self EXCEPT !.alpha_beta_cutoffs_this_turn = 0,
                 !.num_static_evals_this_turn = 0,
                 !.zobrist_hit_count = 0,
                 !.zobrist_read_attempt_count = 0,
                 !.zobrist_write_count = 0]

\* C16: every make_move call starts by resetting the cutoff, leaf-evaluation,
\* cache-hit, read-attempt and write counts to zero, so that after the call
\* each counter holds what a call started with all counters at zero leaves.
C16_CountersReset ==
    [][ res'.op = "make_move" =>
          \E o \in make_move(ZeroCounters(agent), state, res'.use_alpha_beta,
                             res'.use_zobrist_hashing, res'.max_ply) :
             Counters(agent') = Counters(o.self) ]_vars

\* the step is a cache-enabled minimax call (every such call changes a
\* counter) at depth_remaining > 0 on a state is_terminal rejects, its board
\* hash in the table
CacheHitCall ==
    /\ res'.op = "minimax"
    /\ agent' # agent
    /\ res'.depth_remaining > 0
    /\ ~is_terminal(agent, state)
    /\ compute_zobrist(agent, state) \in DOMAIN agent.transposition_table

\* C17: the table is keyed by the board hash alone.  A cache-enabled minimax
\* call at any remaining depth > 0 on a non-terminal state whose board hash
\* is in the table returns the stored value, whatever the depth it was
\* stored at; it does not recurse (no leaf evaluation, no cutoff), counts one
\* read attempt and one hit, writes nothing and leaves the table as it was.
C17_HitReturnsStoredValue ==
    [][ CacheHitCall =>
             /\ res'.value = agent.transposition_table[compute_zobrist(agent, state)]
             /\ agent'.transposition_table = agent.transposition_table
             /\ agent'.zobrist_hit_count = agent.zobrist_hit_count + 1
             /\ agent'.zobrist_read_attempt_count = agent.zobrist_read_attempt_count + 1
             /\ agent'.zobrist_write_count = agent.zobrist_write_count
             /\ agent'.num_static_evals_this_turn = agent.num_static_evals_this_turn
             /\ agent'.alpha_beta_cutoffs_this_turn = agent.alpha_beta_cutoffs_this_turn
             /\ res'.stored = StoredDepths ]_vars

\* a hit at a remaining depth above the one the value was stored at
C17_Witness ==
    /\ res.op = "minimax"
    /\ agent.zobrist_hit_count > 0
    /\ agent.zobrist_write_count = 1
    /\ compute_zobrist(agent, state) \in DOMAIN res.stored
    /\ res.depth_remaining > res.stored[compute_zobrist(agent, state)]
    /\ res.value = agent.transposition_table[compute_zobrist(agent, state)]

---------------------------------------------------------------------------
(* What make_move hands back *)

\* C18: whenever make_move returns normally, the returned move is a cell
\* that was Empty in current_state, a member of
\* get_available_moves(current_state); the returned state equals
\* apply_move(current_state, move); and current_state is left unchanged.
C18_ReturnsLegalMoveAndItsState ==
    [][ res'.op = "make_move" /\ res'.raised = None =>
          /\ state.board[res'.ret[1][1][1]][res'.ret[1][1][2]] = EmptyCell
          /\ \E j \in 1..Len(get_available_moves(state)) :
                get_available_moves(state)[j] = res'.ret[1][1]
          /\ res'.ret[1][2] = ChildState(state, res'.ret[1][1])
          /\ state' = state ]_vars

\* make_move has returned a move on a board that holds pieces and a
\* forbidden square
C18_Witness ==
    /\ res.op = "make_move"
    /\ res.raised = None
    /\ PieceCount(state.board, PLAYER_X) + PieceCount(state.board, PLAYER_O) >= 2
    /\ \E r \in 0..(GameN - 1), c \in 0..(GameM - 1) : state.board[r][c] = ForbiddenCell
    /\ state.board[res.ret[1][1][1]][res.ret[1][1][2]] = EmptyCell
    /\ res.ret[1][2].board[res.ret[1][1][1]][res.ret[1][1][2]] = agent.playing

====
